---- MODULE Spec2Model ----
(***************************************************************************)
(* Walk decoder / trainer of src/utils.py: process() walks an overlap      *)
(* graph from a root, follows single neighbours, and at every branch asks   *)
(* the decision model for scores and the alignment oracle                   *)
(* (get_edlib_best) for the ground-truth neighbour.                         *)
(*                                                                         *)
(* One behaviour of Spec is one call of process().  The arguments of the    *)
(* call (graph, adjacency, model variant, mode) are fixed by Init; the      *)
(* results of the external collaborators (model scores, aligner strands,    *)
(* edit distances) are drawn when the code calls them.                      *)
(***************************************************************************)
EXTENDS Integers, Sequences, FiniteSets, TLC

\* ---------------------------------------------------------------- bounds
NumNodes == 3       \* graph.num_nodes(): node ids are 0 .. NumNodes-1
MaxEdges == 4       \* total number of adjacency entries of an input graph
MaxScore == 1       \* model scores and edit distances are 0 or MaxScore
MaxDepth == 4       \* get_paths on its own is called with num_nodes <= MaxDepth

\* ------------------------------------------------------ program constants
LookAhead == 4      \* get_paths(current, neighbors, num_nodes=4)

Nodes == 0 .. (NumNodes - 1)
Strands == {1, -1}
NoNode == -1        \* Python None where a node id is expected
NoIndex == 0        \* no index computed yet (indices are 1-based here)

VARIABLES
    neighbors,        \* dict node -> list of nodes (argument)
    pred,             \* keys of the predecessor map (argument)
    model,            \* "GCNModel" | "SequentialModel" (argument's type)
    mode,             \* "train" | "eval" (argument)
    pc,               \* "begin" | "loop" | "post" | "done"
    current, visited, walk, loss_list, total_loss, total, correct,
    predict_actions,  \* rows read so far of the table in predict_actions
    last_latent,      \* 0 = torch.zeros, k = latent returned by k-th model call
    actions, index, choice, best_neighbor, loss,   \* locals of the last branch
    optLog,           \* optimizer / autograd calls made so far, in order
    modelLog,         \* model calls made so far, in order
    outcome,          \* "running" | "returned" | name of the exception raised
    result,           \* the returned (loss_list, accuracy), else NoResult
    events,           \* what ran at the branches so far, in the order it ran
    call,             \* a call of get_paths or get_edlib_best on its own:
                      \* the function and its arguments, else NoCall
    ret               \* what that call returned or raised, else NoRet

vars == <<neighbors, pred, model, mode, pc, current, visited, walk, loss_list,
          total_loss, total, correct, predict_actions, last_latent, actions,
          index, choice, best_neighbor, loss, optLog, modelLog,
          outcome, result, events, call, ret>>

\* ------------------------------------------------------------- helpers
Range(s) == {s[i] : i \in DOMAIN s}

\* current ^ 1 : flip the lowest bit
Complement(n) == IF n % 2 = 0 THEN n + 1 ELSE n - 1

\* position (1-based) of the first occurrence of x in list s; 0 if absent
IndexOf(x, s) ==
    IF \E i \in DOMAIN s : s[i] = x
    THEN CHOOSE i \in DOMAIN s : s[i] = x /\ \A j \in 1 .. (i - 1) : s[j] # x
    ELSE 0

RECURSIVE ListsUpTo(_, _)
\* every duplicate-free list over the node set S of length <= n
ListsUpTo(S, n) ==
    IF n <= 0 THEN {<<>>}
    ELSE LET shorter == ListsUpTo(S, n - 1)
         IN  shorter \cup
             {Append(s, x) : s \in {t \in shorter : Len(t) = n - 1},
                             x \in S}

RECURSIVE SumLen(_, _)
SumLen(f, D) ==
    IF D = {} THEN 0
    ELSE LET d == CHOOSE d \in D : TRUE
         IN  Len(f[d]) + SumLen(f, D \ {d})

NoDup(s) == \A i, j \in DOMAIN s : i # j => s[i] # s[j]

RECURSIVE GraphsOn(_)
\* every adjacency dict whose keys are among 0 .. k-1, with at most MaxEdges
\* entries over all its lists and no node its own neighbour; a node may be
\* missing from the dict
GraphsOn(k) ==
    IF k = 0 THEN {<<>>}
    ELSE UNION {
           {g} \cup {g @@ ((k - 1) :> l) :
                       l \in {m \in ListsUpTo(Nodes \ {k - 1},
                                        MaxEdges - SumLen(g, DOMAIN g)) :
                                NoDup(m)}} :
           g \in GraphsOn(k - 1)}

Adjacencies == GraphsOn(NumNodes)

\* ------------------------------------------------- get_paths (lines 32-41)
Reverse(s) == [i \in 1 .. Len(s) |-> s[Len(s) + 1 - i]]

\* AppendAll that loses the last of several paths
AppendAllButLast(next_paths, start) ==
    [j \in 1 .. (IF Len(next_paths) > 1 THEN Len(next_paths) - 1
                 ELSE Len(next_paths)) |-> Append(next_paths[j], start)]
        \o <<>>

\* path.append(start) for every path of next_paths (lines 38-40)
AppendAll(next_paths, start) ==
    [j \in 1 .. Len(next_paths) |-> Append(next_paths[j], start)] \o <<>>

RECURSIVE get_paths(_, _, _)
RECURSIVE PathsVia(_, _, _, _)
\* the loop of line 36 over the neighbours list[i ..]; raised is TRUE when a
\* lookup neighbors[n] raised KeyError on the way
PathsVia(list, i, nbrs, num_nodes) ==
    IF i > Len(list) THEN [raised |-> FALSE, paths |-> <<>>]
    ELSE LET first == get_paths(list[i], nbrs, num_nodes)
         IN  IF first.raised THEN first
             ELSE LET rest == PathsVia(list, i + 1, nbrs, num_nodes)
                  IN  IF rest.raised THEN rest
                      ELSE [raised |-> FALSE,
                            paths |-> first.paths \o rest.paths]

\* get_paths that keeps a path which ends early at a node without neighbours
get_paths_keeping_short(start, nbrs, num_nodes) ==
    IF num_nodes = 0 THEN [raised |-> FALSE, paths |-> << <<start>> >>]
    ELSE IF start \notin DOMAIN nbrs THEN [raised |-> TRUE, paths |-> <<>>]
    ELSE IF nbrs[start] = <<>>
         THEN [raised |-> FALSE, paths |-> << <<start>> >>]
    ELSE LET via == PathsVia(nbrs[start], 1, nbrs, num_nodes - 1)
         IN  IF via.raised THEN via
             ELSE [raised |-> FALSE, paths |-> AppendAll(via.paths, start)]

\* [raised |-> the lookup neighbors[start] raised KeyError somewhere,
\*  paths  |-> the list returned otherwise (each path deepest node first)]
get_paths(start, nbrs, num_nodes) ==
    IF num_nodes = 0 THEN [raised |-> FALSE, paths |-> << <<start>> >>]
    ELSE IF start \notin DOMAIN nbrs THEN [raised |-> TRUE, paths |-> <<>>]
    ELSE LET via == PathsVia(nbrs[start], 1, nbrs, num_nodes - 1)
         IN  IF via.raised THEN via
             ELSE [raised |-> FALSE, paths |-> AppendAll(via.paths, start)]

\* ------------------------------------------- get_edlib_best (lines 44-71)
\* candidate paths in forward order (line 47)
Candidates(cur, nbrs) ==
    LET ps == get_paths(cur, nbrs, LookAhead).paths
    IN  [i \in 1 .. Len(ps) |-> Reverse(ps[i])] \o <<>>

\* Surviving without the strand filter
SurvivingUnfiltered(cur, cands, strandOf) == cands

\* the candidates among cands that pass the strand filter of lines 50-52
\* (Python's path[1] is path[2] here)
Surviving(cur, cands, strandOf) ==
    LET keep(path) == strandOf[path[2]] = strandOf[cur]
    IN  SelectSeq(cands, keep)

\* min(distances, key=score): position of the first candidate of least score
ArgMinFirst(score) ==
    CHOOSE i \in DOMAIN score :
        /\ \A j \in DOMAIN score : score[i] <= score[j]
        /\ \A j \in 1 .. (i - 1) : score[j] > score[i]

\* lines 62-71 on the surviving candidates: the node returned, NoNode for
\* None; score[i] is the normalised edit distance of the i-th of them
BestOf(distances, score) ==
    IF distances = <<>> THEN NoNode
    ELSE distances[ArgMinFirst(score)][2]

\* the node get_edlib_best returns when strandOf gives the anchors and score
\* the edit distances
get_edlib_best(cur, nbrs, strandOf, score) ==
    BestOf(Surviving(cur, Candidates(cur, nbrs), strandOf), score)

\* the nodes anchored on line 50: path[1] of each candidate
FirstHops(cands) == {cands[i][2] : i \in DOMAIN cands}

\* edit-distance outcomes for k candidates: one strictly best candidate, or
\* all candidates equal; <<>> when there is no candidate
ScoreVectors(k) ==
    {[j \in 1 .. k |-> IF j = i THEN 0 ELSE MaxScore] : i \in 1 .. k}
        \cup {[j \in 1 .. k |-> MaxScore]}

\* ------------------------------------------------ process (lines 108-193)
NoLoss == [input |-> <<>>, target |-> NoIndex]
NoResult == [loss_list |-> <<>>, accuracy |-> <<0, 0>>]

\* nn.CrossEntropyLoss()(input, target), kept as the term it is computed from
criterion(input, target) == [input |-> input, target |-> target]

\* predict_actions.squeeze(1)[neighbors[current]] (line 156)
Restrict(table, nbrList) == [i \in DOMAIN nbrList |-> table[nbrList[i]]]

\* torch.topk(actions, k=1): the positions holding the largest score; which
\* of several equal maxima is reported is left open by torch
TopK1(acts) == {i \in DOMAIN acts : \A j \in DOMAIN acts : acts[j] <= acts[i]}

\* MarkVisited that marks nothing
MarkVisitedNothing(vis, cur) == vis

\* MarkVisited without the virtual pair of the node
MarkVisitedNoPair(vis, cur) == vis \cup {cur}

\* lines 138-139
MarkVisited(vis, cur) == vis \cup {cur, Complement(cur)}

\* the target index handed to criterion on line 169
LossTarget(idx, best, nbrList) == idx

\* CorrectAfter with the comparison dropped: every branch counts as correct
CorrectAfterAlways(cor, ch, best) == cor + 1

\* lines 173-174
CorrectAfter(cor, ch, best) == IF ch = best THEN cor + 1 ELSE cor

\* TotalAfter that forgets to count the branch
TotalAfterUncounted(tot) == tot

\* line 175
TotalAfter(tot) == tot + 1

\* line 171
LossListAfter(ll, ls) == Append(ll, ls)

\* line 170: total_loss starts as the int 0 (<<>>) and becomes a sum of losses
TotalLossAfter(tl, ls) == Append(tl, ls)

\* NextCurrent following the model's own choice instead of the oracle
NextCurrentModelChoice(best, ch) == ch

\* line 178, teacher forcing
NextCurrent(best, ch) == best

OptCall(op, on) == [op |-> op, on |-> on]

\* SeqUpdate that clears the gradients after backward instead of before
SeqUpdateLateZeroGrad(log, mdl, md, ls) ==
    IF mdl = "SequentialModel" /\ md = "train"
    THEN log \o <<OptCall("backward", <<ls>>), OptCall("zero_grad", <<>>),
                  OptCall("step", <<>>)>>
    ELSE log

\* lines 181-184
SeqUpdate(log, mdl, md, ls) ==
    IF mdl = "SequentialModel" /\ md = "train"
    THEN log \o <<OptCall("zero_grad", <<>>), OptCall("backward", <<ls>>),
                  OptCall("step", <<>>)>>
    ELSE log

\* GcnUpdate that does not look at the mode flag
GcnUpdateAnyMode(log, mdl, md, tl) ==
    IF mdl = "GCNModel"
    THEN IF tl = <<>>
         THEN [raised |-> TRUE, log |-> Append(log, OptCall("zero_grad", <<>>))]
         ELSE [raised |-> FALSE,
               log |-> log \o <<OptCall("zero_grad", <<>>),
                                OptCall("backward", tl),
                                OptCall("step", <<>>)>>]
    ELSE [raised |-> FALSE, log |-> log]

\* lines 187-190; total_loss.backward() raises AttributeError while total_loss
\* is still the int 0
GcnUpdate(log, mdl, md, tl) ==
    IF mdl = "GCNModel" /\ md = "train"
    THEN IF tl = <<>>
         THEN [raised |-> TRUE, log |-> Append(log, OptCall("zero_grad", <<>>))]
         ELSE [raised |-> FALSE,
               log |-> log \o <<OptCall("zero_grad", <<>>),
                                OptCall("backward", tl),
                                OptCall("step", <<>>)>>]
    ELSE [raised |-> FALSE, log |-> log]

\* line 192: correct / total as the fraction <<numerator, denominator>>
Accuracy(cor, tot) == <<cor, tot>>

\* ModelCall that always hands the model the all-zero latent state
ModelCallZeroLatent(fn, latent) == [call |-> fn, latent |-> 0]

\* a model call, with the latent state handed to it (0 for all zeros, k for
\* the latent state returned by the k-th call)
ModelCall(fn, latent) == [call |-> fn, latent |-> latent]

\* no call of a helper on its own is in progress
NoCall == [fn |-> "none"]
NoRet == [kind |-> "none"]

Event(ev, node) == [ev |-> ev, node |-> node]

\* what runs at a branch node whose oracle call raises: lines 154-158 (the
\* model's scores are read and its arg-max neighbour taken), then line 161
\* does not return
RaisedEvents(node) == <<Event("predict", node)>>

\* what runs at a branch node whose oracle call returns None: lines 154-158,
\* then line 161 returns, then the break of line 165
NoneEvents(node) == <<Event("predict", node), Event("oracle", node)>>

\* ResolvedEvents with the loss computed before the oracle is asked
ResolvedEventsLossFirst(node) ==
    <<Event("predict", node), Event("loss", node), Event("oracle", node)>>

\* what runs at a resolved branch node: lines 154-158, then line 161 returns,
\* then the loss of lines 169-171 is computed from the scores
ResolvedEvents(node) ==
    <<Event("predict", node), Event("oracle", node), Event("loss", node)>>

\* the key sets of the predecessor map: node 0 is the only node without a
\* predecessor, or no node is
PredKeySets == {Nodes \ {0}, Nodes}

Init ==
    /\ neighbors \in Adjacencies
    /\ pred \in PredKeySets
    /\ model \in {"GCNModel", "SequentialModel"}
    /\ mode \in {"train", "eval"}
    /\ pc = "begin"
    /\ current = NoNode
    /\ visited = {}
    /\ walk = <<>>
    /\ loss_list = <<>>
    /\ total_loss = <<>>
    /\ total = 0
    /\ correct = 0
    /\ predict_actions = <<>>
    /\ last_latent = 0
    /\ actions = <<>>
    /\ index = NoIndex
    /\ choice = NoNode
    /\ best_neighbor = NoNode
    /\ loss = NoLoss
    /\ optLog = <<>>
    /\ modelLog = <<>>
    /\ outcome = "running"
    /\ result = NoResult
    /\ events = <<>>
    /\ call = NoCall
    /\ ret = NoRet

\* line 112
start_nodes == Nodes \ pred

\* lines 109-132 when start_nodes is empty: start_nodes[0] raises IndexError
BeginNoRoot ==
    /\ pc = "begin"
    /\ start_nodes = {}
    /\ pc' = "done"
    /\ outcome' = "IndexError"
    /\ UNCHANGED <<call, ret, events, neighbors, pred, model, mode, current,
                   visited, walk, loss_list, total_loss, total, correct,
                   predict_actions, last_latent, actions, index, choice,
                   best_neighbor, loss, optLog, modelLog, result>>

\* lines 109-132: root selection, and embed + classify for the GCN model
Begin ==
    /\ pc = "begin"
    /\ \E start \in start_nodes : current' = start
    /\ IF model = "GCNModel"
       THEN /\ last_latent' = 1
            /\ modelLog' = <<ModelCall("embed", 0), ModelCall("classify", 1)>>
       ELSE UNCHANGED <<last_latent, modelLog>>
    /\ pc' = "loop"
    /\ UNCHANGED <<call, ret, events, neighbors, pred, model, mode, visited,
                   walk, loss_list, total_loss, total, correct,
                   predict_actions, actions, index, choice, best_neighbor,
                   loss, optLog, outcome, result>>

\* LoopRevisit with the visited test ahead of walk.append
LoopRevisitBeforeAppend ==
    /\ pc = "loop"
    /\ current \in visited
    /\ pc' = "post"
    /\ UNCHANGED <<call, ret, events, neighbors, pred, model, mode, current,
                   visited, walk, loss_list, total_loss, total, correct,
                   predict_actions, last_latent, actions, index, choice,
                   best_neighbor, loss, optLog, modelLog, outcome, result>>

\* lines 135-137: the current node was already visited
LoopRevisit ==
    /\ pc = "loop"
    /\ current \in visited
    /\ walk' = Append(walk, current)
    /\ pc' = "post"
    /\ UNCHANGED <<call, ret, events, neighbors, pred, model, mode, current,
                   visited, loss_list, total_loss, total, correct,
                   predict_actions, last_latent, actions, index, choice,
                   best_neighbor, loss, optLog, modelLog, outcome, result>>

\* LoopKeyError that swallows the KeyError and just leaves the loop
LoopKeyErrorSwallowed ==
    /\ pc = "loop"
    /\ current \notin visited
    /\ current \notin DOMAIN neighbors
    /\ walk' = Append(walk, current)
    /\ visited' = MarkVisited(visited, current)
    /\ pc' = "post"
    /\ UNCHANGED <<call, ret, events, neighbors, pred, model, mode, current,
                   loss_list, total_loss, total, correct, predict_actions,
                   last_latent, actions, index, choice, best_neighbor, loss,
                   optLog, modelLog, outcome, result>>

\* lines 135-145: neighbors[current] raises KeyError, which is re-raised
LoopKeyError ==
    /\ pc = "loop"
    /\ current \notin visited
    /\ current \notin DOMAIN neighbors
    /\ walk' = Append(walk, current)
    /\ visited' = MarkVisited(visited, current)
    /\ pc' = "done"
    /\ outcome' = "KeyError"
    /\ UNCHANGED <<call, ret, events, neighbors, pred, model, mode, current,
                   loss_list, total_loss, total, correct, predict_actions,
                   last_latent, actions, index, choice, best_neighbor, loss,
                   optLog, modelLog, result>>

\* lines 135-142: no neighbours
LoopDeadEnd ==
    /\ pc = "loop"
    /\ current \notin visited
    /\ current \in DOMAIN neighbors
    /\ Len(neighbors[current]) = 0
    /\ walk' = Append(walk, current)
    /\ visited' = MarkVisited(visited, current)
    /\ pc' = "post"
    /\ UNCHANGED <<call, ret, events, neighbors, pred, model, mode, current,
                   loss_list, total_loss, total, correct, predict_actions,
                   last_latent, actions, index, choice, best_neighbor, loss,
                   optLog, modelLog, outcome, result>>

\* LoopFollow that runs the sequential model on the way
LoopFollowCallsModel ==
    /\ pc = "loop"
    /\ current \notin visited
    /\ current \in DOMAIN neighbors
    /\ Len(neighbors[current]) = 1
    /\ walk' = Append(walk, current)
    /\ visited' = MarkVisited(visited, current)
    /\ current' = neighbors[current][1]
    /\ last_latent' = Len(modelLog) + 1
    /\ modelLog' = Append(modelLog, ModelCall("step", last_latent))
    /\ UNCHANGED <<call, ret, events, neighbors, pred, model, mode, pc,
                   loss_list, total_loss, total, correct, predict_actions,
                   actions, index, choice, best_neighbor, loss, optLog,
                   outcome, result>>

\* lines 135-148: exactly one neighbour
LoopFollow ==
    /\ pc = "loop"
    /\ current \notin visited
    /\ current \in DOMAIN neighbors
    /\ Len(neighbors[current]) = 1
    /\ walk' = Append(walk, current)
    /\ visited' = MarkVisited(visited, current)
    /\ current' = neighbors[current][1]
    /\ UNCHANGED <<call, ret, events, neighbors, pred, model, mode, pc,
                   loss_list, total_loss, total, correct, predict_actions,
                   last_latent, actions, index, choice, best_neighbor, loss,
                   optLog, modelLog, outcome, result>>

\* old, and new where old has no value
Extend(old, new) ==
    [n \in (DOMAIN old) \cup (DOMAIN new) |->
        IF n \in DOMAIN old THEN old[n] ELSE new[n]]

\* more than one neighbour: the loop reaches line 151
AtBranch ==
    /\ pc = "loop"
    /\ current \notin visited
    /\ current \in DOMAIN neighbors
    /\ Len(neighbors[current]) > 1

\* the score tables over the node set rows that the model may produce: one
\* node preferred over the others, or all nodes scored alike
ScoreTables(rows) ==
    {t \in [rows -> {0, MaxScore}] :
        Cardinality({n \in rows : t[n] # 0}) <= 1}

\* the rows of predict_actions that line 156 may read at this branch.  A row
\* is drawn when the code first reads it: the sequential model returns a new
\* table at every branch (line 155), the table of the GCN model is the one of
\* line 131, so a row read before keeps its score
BranchTables ==
    LET rows == Range(neighbors[current])
    IN  IF model = "SequentialModel" THEN ScoreTables(rows)
        ELSE {t \in ScoreTables(rows \cup DOMAIN predict_actions) :
                 \A n \in DOMAIN predict_actions : t[n] = predict_actions[n]}

\* lines 135-158 of a branch iteration: walk, visited, model call, choice
BranchScored(tbl, idx) ==
    /\ AtBranch
    /\ walk' = Append(walk, current)
    /\ visited' = MarkVisited(visited, current)
    /\ IF model = "SequentialModel"
       THEN /\ last_latent' = Len(modelLog) + 1
            /\ modelLog' = Append(modelLog, ModelCall("step", last_latent))
       ELSE UNCHANGED <<last_latent, modelLog>>
    /\ predict_actions' = tbl
    /\ actions' = Restrict(tbl, neighbors[current])
    /\ idx \in TopK1(Restrict(tbl, neighbors[current]))
    /\ index' = idx
    /\ choice' = neighbors[current][idx]

\* lines 14-19 inside line 161: the aligner reports no hit for a node that
\* get_edlib_best anchors, and list(alignment)[0] raises IndexError
BranchNoHit ==
    /\ AtBranch
    /\ \E tbl \in BranchTables : \E idx \in DOMAIN neighbors[current] :
          BranchScored(tbl, idx)
    /\ pc' = "done"
    /\ outcome' = "IndexError"
    /\ events' = events \o RaisedEvents(current)
    /\ UNCHANGED <<call, ret, neighbors, pred, model, mode, current,
                   loss_list, total_loss, total, correct, best_neighbor, loss,
                   optLog, result>>

\* line 47 inside line 161: get_paths looks up a node missing from neighbors
BranchKeyError ==
    /\ AtBranch
    /\ get_paths(current, neighbors, LookAhead).raised
    /\ \E tbl \in BranchTables : \E idx \in DOMAIN neighbors[current] :
          BranchScored(tbl, idx)
    /\ pc' = "done"
    /\ outcome' = "KeyError"
    /\ events' = events \o RaisedEvents(current)
    /\ UNCHANGED <<call, ret, neighbors, pred, model, mode, current,
                   loss_list, total_loss, total, correct, best_neighbor, loss,
                   optLog, result>>

\* the nodes the oracle call of line 161 may return at the current branch
\* (NoNode for None), over the strands the aligner may report in this call for
\* the nodes it anchors and the edit distances edlib may report for the
\* candidates; both are results of external calls, drawn anew in every call
\* (get_edlib_best(current, neighbors, strandOf, score) for every strandOf
\* and score, with the candidate paths enumerated once)
OracleAnswers ==
    LET cands == Candidates(current, neighbors)
    IN  UNION {
          LET distances == Surviving(current, cands, strandOf)
          IN  {BestOf(distances, score) :
                  score \in ScoreVectors(Len(distances))} :
          strandOf \in [FirstHops(cands) \cup {current} -> Strands]}

\* BranchNone with continue in place of break
BranchNoneContinues ==
    /\ AtBranch
    /\ ~get_paths(current, neighbors, LookAhead).raised
    /\ NoNode \in OracleAnswers
    /\ best_neighbor' = NoNode
    /\ \E tbl \in BranchTables : \E idx \in DOMAIN neighbors[current] :
          BranchScored(tbl, idx)
    /\ events' = events \o NoneEvents(current)
    /\ UNCHANGED <<call, ret, neighbors, pred, model, mode, pc, current,
                   loss_list, total_loss, total, correct, loss, optLog,
                   outcome, result>>

\* lines 161-165: the oracle returns None and the loop breaks
BranchNone ==
    /\ AtBranch
    /\ ~get_paths(current, neighbors, LookAhead).raised
    /\ NoNode \in OracleAnswers
    /\ best_neighbor' = NoNode
    /\ \E tbl \in BranchTables : \E idx \in DOMAIN neighbors[current] :
          BranchScored(tbl, idx)
    /\ pc' = "post"
    /\ events' = events \o NoneEvents(current)
    /\ UNCHANGED <<call, ret, neighbors, pred, model, mode, current,
                   loss_list, total_loss, total, correct, loss, optLog,
                   outcome, result>>

\* lines 161-184: the oracle returns a neighbour; loss, counters, teacher
\* forcing and the sequential model's update
BranchResolved ==
    /\ AtBranch
    /\ ~get_paths(current, neighbors, LookAhead).raised
    /\ \E best \in OracleAnswers \ {NoNode} : best_neighbor' = best
    /\ \E tbl \in BranchTables : \E idx \in DOMAIN neighbors[current] :
          BranchScored(tbl, idx)
    /\ loss' = criterion(actions',
                  LossTarget(index', best_neighbor', neighbors[current]))
    /\ total_loss' = TotalLossAfter(total_loss, loss')
    /\ loss_list' = LossListAfter(loss_list, loss')
    /\ correct' = CorrectAfter(correct, choice', best_neighbor')
    /\ total' = TotalAfter(total)
    /\ current' = NextCurrent(best_neighbor', choice')
    /\ optLog' = SeqUpdate(optLog, model, mode, loss')
    /\ events' = events \o ResolvedEvents(current)
    /\ UNCHANGED <<call, ret, neighbors, pred, model, mode, pc, outcome,
                   result>>

\* lines 187-189: total_loss is still the int 0 and has no backward()
PostAttributeError ==
    /\ pc = "post"
    /\ GcnUpdate(optLog, model, mode, total_loss).raised
    /\ optLog' = GcnUpdate(optLog, model, mode, total_loss).log
    /\ pc' = "done"
    /\ outcome' = "AttributeError"
    /\ UNCHANGED <<call, ret, events, neighbors, pred, model, mode, current,
                   visited, walk, loss_list, total_loss, total, correct,
                   predict_actions, last_latent, actions, index, choice,
                   best_neighbor, loss, modelLog, result>>

\* lines 187-192: correct / total with total == 0
PostZeroDivision ==
    /\ pc = "post"
    /\ ~GcnUpdate(optLog, model, mode, total_loss).raised
    /\ total = 0
    /\ optLog' = GcnUpdate(optLog, model, mode, total_loss).log
    /\ pc' = "done"
    /\ outcome' = "ZeroDivisionError"
    /\ UNCHANGED <<call, ret, events, neighbors, pred, model, mode, current,
                   visited, walk, loss_list, total_loss, total, correct,
                   predict_actions, last_latent, actions, index, choice,
                   best_neighbor, loss, modelLog, result>>

\* lines 187-193: the call returns loss_list and accuracy
PostReturn ==
    /\ pc = "post"
    /\ ~GcnUpdate(optLog, model, mode, total_loss).raised
    /\ total # 0
    /\ optLog' = GcnUpdate(optLog, model, mode, total_loss).log
    /\ pc' = "done"
    /\ outcome' = "returned"
    /\ result' = [loss_list |-> loss_list,
                  accuracy |-> Accuracy(correct, total)]
    /\ UNCHANGED <<call, ret, events, neighbors, pred, model, mode, current,
                   visited, walk, loss_list, total_loss, total, correct,
                   predict_actions, last_latent, actions, index, choice,
                   best_neighbor, loss, modelLog>>

Next ==
    \/ BeginNoRoot
    \/ Begin
    \/ LoopRevisit
    \/ LoopKeyError
    \/ LoopDeadEnd
    \/ LoopFollow
    \/ BranchNoHit
    \/ BranchKeyError
    \/ BranchNone
    \/ BranchResolved
    \/ PostAttributeError
    \/ PostZeroDivision
    \/ PostReturn

Spec == Init /\ [][Next]_vars

\* process runs on: single-threaded, synchronous code, and every model,
\* oracle and optimizer call comes back (by returning or raising)
LiveSpec == Spec /\ WF_vars(Next)

\* ------------------------------- get_paths and get_edlib_best on their own
\* the frame of a call of a helper on its own: process is not running
processVars == <<neighbors, pred, model, mode, pc, current, visited, walk,
                 loss_list, total_loss, total, correct, predict_actions,
                 last_latent, actions, index, choice, best_neighbor, loss,
                 optLog, modelLog, outcome, result, events>>

\* the call get_paths(start, neighbors, num_nodes) (line 32)
GetPathsCall(s, g, d) ==
    [fn |-> "get_paths", start |-> s, neighbors |-> g, num_nodes |-> d]

\* the call get_edlib_best(idx, graph, reads, current, neighbors, ...)
\* (line 44), by the two arguments the returned node depends on
EdlibBestCall(c, g) ==
    [fn |-> "get_edlib_best", current |-> c, neighbors |-> g]

\* one call of either helper, on any node, any adjacency and, for get_paths,
\* any depth up to MaxDepth
CallInit ==
    /\ \E n \in Nodes, g \in Adjacencies :
          \/ \E d \in 0 .. MaxDepth : call = GetPathsCall(n, g, d)
          \/ call = EdlibBestCall(n, g)
    /\ ret = NoRet
    /\ neighbors = <<>>
    /\ pred = {}
    /\ model = "GCNModel"
    /\ mode = "eval"
    /\ pc = "done"
    /\ current = NoNode
    /\ visited = {}
    /\ walk = <<>>
    /\ loss_list = <<>>
    /\ total_loss = <<>>
    /\ total = 0
    /\ correct = 0
    /\ predict_actions = <<>>
    /\ last_latent = 0
    /\ actions = <<>>
    /\ index = NoIndex
    /\ choice = NoNode
    /\ best_neighbor = NoNode
    /\ loss = NoLoss
    /\ optLog = <<>>
    /\ modelLog = <<>>
    /\ outcome = "running"
    /\ result = NoResult
    /\ events = <<>>

\* lines 32-41: get_paths returns its list of paths
GetPathsReturns ==
    /\ call.fn = "get_paths"
    /\ ret = NoRet
    /\ LET r == get_paths(call.start, call.neighbors, call.num_nodes)
       IN  /\ ~r.raised
           /\ ret' = [kind |-> "returned", value |-> r.paths]
    /\ UNCHANGED <<call, processVars>>

\* line 36: neighbors[start] raises KeyError at some depth of the recursion
GetPathsKeyError ==
    /\ call.fn = "get_paths"
    /\ ret = NoRet
    /\ get_paths(call.start, call.neighbors, call.num_nodes).raised
    /\ ret' = [kind |-> "KeyError"]
    /\ UNCHANGED <<call, processVars>>

\* lines 45 and 50 via line 17: the aligner has no hit for a node anchored
EdlibBestNoHit ==
    /\ call.fn = "get_edlib_best"
    /\ ret = NoRet
    /\ ret' = [kind |-> "IndexError"]
    /\ UNCHANGED <<call, processVars>>

\* line 47: get_paths raises KeyError
EdlibBestKeyError ==
    /\ call.fn = "get_edlib_best"
    /\ ret = NoRet
    /\ get_paths(call.current, call.neighbors, LookAhead).raised
    /\ ret' = [kind |-> "KeyError"]
    /\ UNCHANGED <<call, processVars>>

\* lines 45-71: every anchor has a hit; strand is what the aligner reports for
\* the nodes anchored, score the normalised edit distance of each surviving
\* candidate; value is the node returned, NoNode for None
EdlibBestReturns ==
    /\ call.fn = "get_edlib_best"
    /\ ret = NoRet
    /\ ~get_paths(call.current, call.neighbors, LookAhead).raised
    /\ LET cands == Candidates(call.current, call.neighbors)
       IN  \E strandOf \in [FirstHops(cands) \cup {call.current} -> Strands] :
             \E score \in ScoreVectors(
                            Len(Surviving(call.current, cands, strandOf))) :
                ret' = [kind |-> "returned",
                        value |-> get_edlib_best(call.current, call.neighbors,
                                                 strandOf, score),
                        strand |-> strandOf,
                        score |-> score]
    /\ UNCHANGED <<call, processVars>>

CallNext ==
    \/ GetPathsReturns
    \/ GetPathsKeyError
    \/ EdlibBestNoHit
    \/ EdlibBestKeyError
    \/ EdlibBestReturns

CallSpec == CallInit /\ [][CallNext]_vars

\* ------------------------------------------------------------ properties
Last(s) == s[Len(s)]

Degree(n) == IF n \in DOMAIN neighbors THEN Len(neighbors[n]) ELSE 0

\* the state right after an iteration that resolved a branch: the loop goes
\* on and the node just walked has several neighbours
JustBranched ==
    /\ pc = "loop"
    /\ walk # <<>>
    /\ Degree(Last(walk)) > 1

\* a step of the loop that resolves a branch: the oracle returned a node
ResolvedStep == AtBranch /\ pc' = "loop"

\* a step of the loop in which the oracle returned None at a branch
NoneStep == AtBranch /\ outcome' = "running" /\ best_neighbor' = NoNode

\* the walk loop ended by a break (not by an exception raised inside it)
LoopEnded == pc = "post" \/ outcome \in
                 {"returned", "ZeroDivisionError", "AttributeError"}

\* C1: at every resolved branch the target index handed to the loss criterion
\* is the position of the oracle-selected neighbour in neighbors[current].
C1_TargetIsOracleIndex ==
    JustBranched =>
        loss.target = IndexOf(best_neighbor, neighbors[Last(walk)])

\* C2: teacher forcing: after a resolved branch the new current node is the
\* oracle-selected neighbour, and it is the next node appended to the walk,
\* whatever the model chose.
C2_TeacherForcing ==
    /\ [](JustBranched =>
            /\ best_neighbor # NoNode
            /\ current = best_neighbor
            /\ IndexOf(best_neighbor, neighbors[Last(walk)]) # 0)
    /\ [][JustBranched /\ walk' # walk
              => walk' = Append(walk, best_neighbor)]_vars

\* C2 witness: the model preferred another neighbour than the oracle, and the
\* walk went on via the oracle's neighbour.
C2_Witness ==
    /\ pc = "post"
    /\ total = 1
    /\ Len(walk) >= 2
    /\ Degree(walk[Len(walk) - 1]) > 1
    /\ Last(walk) = best_neighbor
    /\ choice # best_neighbor
    /\ actions[index] > actions[IndexOf(best_neighbor,
                                        neighbors[walk[Len(walk) - 1]])]

\* C3: a resolved branch appends exactly one loss, adds one to total, and adds
\* one to correct exactly when the model's arg-max neighbour is the
\* oracle-selected neighbour.
C3_BranchBookkeeping ==
    [][ResolvedStep =>
          /\ loss_list' = Append(loss_list, loss')
          /\ loss' # NoLoss
          /\ total' = total + 1
          /\ index' \in TopK1(Restrict(predict_actions', neighbors[current]))
          /\ choice' = neighbors[current][index']
          /\ correct' = IF choice' = best_neighbor' THEN correct + 1
                        ELSE correct]_vars

\* C3 witness: two branches were resolved, the model was right at exactly one.
C3_Witness ==
    /\ outcome = "returned"
    /\ total = 2
    /\ correct = 1
    /\ Len(loss_list) = 2

\* number of optimizer.step() calls in an optimizer log
RECURSIVE StepCount(_)
StepCount(log) ==
    IF log = <<>> THEN 0
    ELSE (IF Head(log).op = "step" THEN 1 ELSE 0) + StepCount(Tail(log))

\* C4: the sequential model in train mode makes one update (zero_grad,
\* backward on that step's loss, step) in every step that resolves a branch,
\* none in any other step, in particular none after the loop; the number of
\* optimizer steps equals total.
C4_SequentialUpdates ==
    /\ [](model = "SequentialModel" /\ mode = "train"
            => StepCount(optLog) = total /\ Len(optLog) = 3 * total)
    /\ [][model = "SequentialModel" /\ mode = "train" =>
            IF ResolvedStep
            THEN optLog' = optLog \o <<OptCall("zero_grad", <<>>),
                                       OptCall("backward", <<loss'>>),
                                       OptCall("step", <<>>)>>
            ELSE optLog' = optLog]_vars

\* C4 witness: a sequential training call that returned after two branches.
C4_Witness ==
    /\ model = "SequentialModel"
    /\ mode = "train"
    /\ outcome = "returned"
    /\ total = 2
    /\ StepCount(optLog) = 2

\* C5: the GCN model in train mode makes exactly one update in every call whose
\* walk loop ended, after the loop, on the sum of all per-step losses, and none
\* inside the loop, walks without a resolved branch included.
C5_GcnSingleUpdate ==
    (model = "GCNModel" /\ mode = "train") =>
        /\ pc \in {"begin", "loop", "post"} => optLog = <<>>
        /\ (pc = "done" /\ LoopEnded) =>
              optLog = <<OptCall("zero_grad", <<>>),
                         OptCall("backward", loss_list),
                         OptCall("step", <<>>)>>

\* C6: with a mode other than train no optimizer call is ever made, and every
\* resolved branch still computes a loss and appends it to the loss history.
C6_InferenceOnly ==
    /\ [](mode # "train" => optLog = <<>>)
    /\ [][mode # "train" /\ ResolvedStep =>
            /\ loss' = criterion(actions', index')
            /\ loss_list' = Append(loss_list, loss')]_vars

\* C6 witness: an inference call of each model returned two losses.
C6_Witness ==
    /\ mode # "train"
    /\ outcome = "returned"
    /\ Len(loss_list) = 2
    /\ loss_list[1] # NoLoss /\ loss_list[2] # NoLoss

\* C7: a call whose walk loop ended returns the loss history and
\* accuracy = correct / total; with total = 0 it fails with ZeroDivisionError
\* instead; with total = correct > 0 the accuracy is 1.
C7_ReturnValue ==
    (pc = "done" /\ LoopEnded) =>
        IF total = 0 THEN outcome = "ZeroDivisionError"
        ELSE /\ outcome = "returned"
             /\ result.loss_list = loss_list
             /\ result.accuracy = <<correct, total>>
             /\ (correct = total => result.accuracy[1] = result.accuracy[2])

RECURSIVE ChainFrom(_, _)
\* the nodes met from n by following the first neighbour, at most k hops
ChainFrom(n, k) ==
    IF k = 0 \/ Degree(n) = 0 THEN <<n>>
    ELSE <<n>> \o ChainFrom(neighbors[n][1], k - 1)

\* the graph is one linear chain that starts at the root of the walk
IsLinearChain ==
    /\ walk # <<>>
    /\ \A n \in DOMAIN neighbors : Len(neighbors[n]) <= 1
    /\ LET chain == ChainFrom(walk[1], NumNodes)
       IN  /\ NoDup(chain)
           /\ Degree(Last(chain)) = 0
           /\ \A n \in DOMAIN neighbors : Degree(n) = 1 => n \in Range(chain)

\* the chain up to and including its first node whose complement precedes it
UpToComplement(chain) ==
    LET hits == {i \in DOMAIN chain :
                    \E j \in 1 .. (i - 1) : chain[i] = Complement(chain[j])}
    IN  IF hits = {} THEN chain
        ELSE SubSeq(chain, 1, CHOOSE i \in hits : \A h \in hits : i <= h)

\* C8 as stated: on a linear chain the loss history stays empty and the walk
\* is the full chain, root to last node.
C8_ChainWalkIsFullChain ==
    (pc \in {"post", "done"} /\ IsLinearChain) =>
        /\ loss_list = <<>>
        /\ walk = ChainFrom(walk[1], NumNodes)

\* C8 amended: on a linear chain the loss history stays empty, nothing is
\* returned (total is 0), and the walk is the chain from the root up to and
\* including the first node whose complement is an earlier node of the chain;
\* it is the full chain when the chain holds no node with its complement.
C8_ChainWalkUpToComplement ==
    (pc \in {"post", "done"} /\ IsLinearChain) =>
        /\ loss_list = <<>>
        /\ total = 0
        /\ outcome # "returned"
        /\ walk = UpToComplement(ChainFrom(walk[1], NumNodes))

\* C8 witness: a chain that runs into the complement of its root before its end.
C8_Witness ==
    /\ pc = "done"
    /\ IsLinearChain
    /\ Len(walk) < Len(ChainFrom(walk[1], NumNodes))
    /\ loss_list = <<>>

\* C9: when the oracle returns None at a branch the loop ends in that step:
\* only the branch node itself joins the walk, the loss history, total,
\* correct and the optimizer log keep their values, and the walk never grows
\* again.
C9_OracleNoneTerminates ==
    /\ [][NoneStep =>
            /\ pc' = "post"
            /\ walk' = Append(walk, current)
            /\ current' = current
            /\ loss_list' = loss_list
            /\ total_loss' = total_loss
            /\ total' = total
            /\ correct' = correct
            /\ optLog' = optLog]_vars
    /\ [][pc # "loop" /\ pc # "begin" => walk' = walk /\ total' = total]_vars

\* C9 witness: the oracle gave up at the second branch; the first loss stays.
C9_Witness ==
    /\ pc = "post"
    /\ best_neighbor = NoNode
    /\ Degree(Last(walk)) > 1
    /\ total = 1
    /\ Len(loss_list) = 1
    /\ Len(walk) = 2

\* C10: n XOR 1 is an involution on node ids, every step that marks nodes
\* visited marks a node together with its complement, and the visited set is
\* closed under complement at every loop boundary.
C10_VisitedClosed ==
    /\ [](\A n \in Nodes \cup visited :
            /\ Complement(Complement(n)) = n
            /\ Complement(n) # n
            /\ (n \in visited <=> Complement(n) \in visited))
    /\ [][\A n \in visited' \ visited :
            Complement(n) \in visited' \ visited]_vars

\* C10 witness: two nodes were walked and both complements are visited.
C10_Witness ==
    /\ Len(walk) >= 2
    /\ walk[1] # Complement(walk[2])
    /\ {walk[1], walk[2], Complement(walk[1]), Complement(walk[2])}
           \subseteq visited

RECURSIVE WalksFrom(_, _, _)
\* every forward path of exactly d hops from node n in the adjacency g, as
\* the list of its nodes, n first
WalksFrom(n, g, d) ==
    IF d = 0 THEN {<<n>>}
    ELSE IF n \notin DOMAIN g THEN {}
    ELSE UNION {{<<n>> \o w : w \in WalksFrom(g[n][i], g, d - 1)} :
                  i \in DOMAIN g[n]}

\* a get_paths call on its own has returned
PathsReturned == call.fn = "get_paths" /\ ret.kind = "returned"

\* C11: every path get_paths returns for depth d has length d+1; for d = 0 the
\* result is exactly [[start]]; reversed, every path begins at start and each
\* pair of consecutive nodes is an adjacency edge; and the reversed paths are
\* exactly the d-hop forward paths from start.
C11_PathEnumerator ==
    PathsReturned =>
        LET d == call.num_nodes
            g == call.neighbors
            paths == ret.value
        IN  /\ \A i \in DOMAIN paths : Len(paths[i]) = d + 1
            /\ d = 0 => paths = << <<call.start>> >>
            /\ \A i \in DOMAIN paths :
                  LET p == Reverse(paths[i])
                  IN  /\ p[1] = call.start
                      /\ \A k \in 1 .. d :
                            /\ p[k] \in DOMAIN g
                            /\ p[k + 1] \in Range(g[p[k]])
            /\ {Reverse(paths[i]) : i \in DOMAIN paths}
                  = WalksFrom(call.start, g, d)

\* C11 witness: a look-ahead of several hops returned several paths, one of
\* them through the start node again.
C11_Witness ==
    /\ PathsReturned
    /\ call.num_nodes >= 3
    /\ Len(ret.value) >= 2
    /\ \E i \in DOMAIN ret.value :
          \E k \in 1 .. call.num_nodes : ret.value[i][k] = call.start

\* a get_edlib_best call on its own has returned (a node, or None)
OracleReturned == call.fn = "get_edlib_best" /\ ret.kind = "returned"

\* the depth-4 forward paths from the current node of the call whose first hop
\* has the anchor strand of the current node
StrandConsistentPaths ==
    {w \in WalksFrom(call.current, call.neighbors, LookAhead) :
        ret.strand[w[2]] = ret.strand[call.current]}

\* the surviving candidates of the call, in the order the scores refer to
SurvivingOfCall ==
    Surviving(call.current, Candidates(call.current, call.neighbors),
              ret.strand)

\* C12: get_edlib_best returns None exactly when no depth-4 candidate path
\* survives the strand filter; otherwise it returns the first hop of a
\* surviving candidate of minimum score, and that node is a neighbour of
\* current whose anchor strand equals the anchor strand of current.
C12_OracleChoice ==
    OracleReturned =>
        /\ Range(SurvivingOfCall) = StrandConsistentPaths
        /\ ret.value = NoNode <=> StrandConsistentPaths = {}
        /\ ret.value # NoNode =>
              /\ \E i \in DOMAIN SurvivingOfCall :
                    /\ ret.value = SurvivingOfCall[i][2]
                    /\ \A j \in DOMAIN SurvivingOfCall :
                          ret.score[i] <= ret.score[j]
              /\ ret.value \in Range(call.neighbors[call.current])
              /\ ret.strand[ret.value] = ret.strand[call.current]

\* C12 witness: candidates through different neighbours survived the strand
\* filter, and the node returned is not the first hop of the first of them.
C12_Witness ==
    /\ OracleReturned
    /\ ret.value # NoNode
    /\ \E i, j \in DOMAIN SurvivingOfCall :
          SurvivingOfCall[i][2] # SurvivingOfCall[j][2]
    /\ ret.value # SurvivingOfCall[1][2]

\* the loop is about to walk a node that is no key of neighbors
AtAbsentNode == pc = "loop" /\ current \notin DOMAIN neighbors

\* the step aborts the call with the KeyError of the lookup: the node joins
\* the walk, nothing is returned, no loss is recorded and no optimizer call made
AbortsWithKeyError ==
    /\ walk' = Append(walk, current)
    /\ pc' = "done"
    /\ outcome' = "KeyError"
    /\ result' = NoResult
    /\ optLog' = optLog
    /\ loss_list' = loss_list
    /\ total' = total

\* after a KeyError the call is over: nothing is returned and no further step
\* (so no optimizer call) is taken
KeyErrorIsFinal ==
    /\ [](outcome = "KeyError" => pc = "done" /\ result = NoResult)
    /\ [][outcome # "KeyError"]_vars

\* C13 as stated: whenever the walk reaches a node that is absent from the
\* adjacency structure, the call aborts with the lookup failure.
C13_AbsentNodeIsFatal ==
    /\ [][AtAbsentNode => AbortsWithKeyError]_vars
    /\ KeyErrorIsFinal

\* C13 amended: when the walk reaches a node that is absent from the
\* adjacency structure and not yet in the visited set, the call aborts with
\* the lookup failure, returns nothing and makes no optimizer call afterwards;
\* an absent node that is already visited (its complement was walked) is never
\* looked up: it ends the loop as a cycle closure.
C13_AbsentUnvisitedIsFatal ==
    /\ [][AtAbsentNode =>
            IF current \notin visited THEN AbortsWithKeyError
            ELSE /\ walk' = Append(walk, current)
                 /\ pc' = "post"
                 /\ outcome' = "running"]_vars
    /\ KeyErrorIsFinal

\* C13 witness: a GCN training call followed an edge to a node missing from
\* neighbors and was aborted by the KeyError, with no optimizer call made.
C13_Witness ==
    /\ outcome = "KeyError"
    /\ Len(walk) >= 2
    /\ Last(walk) \notin DOMAIN neighbors
    /\ Degree(walk[Len(walk) - 1]) = 1
    /\ model = "GCNModel" /\ mode = "train"
    /\ optLog = <<>>
    /\ result = NoResult

\* the number of events of kind ev in the log
RECURSIVE CountEvents(_, _)
CountEvents(log, ev) ==
    IF log = <<>> THEN 0
    ELSE (IF Head(log).ev = ev THEN 1 ELSE 0) + CountEvents(Tail(log), ev)

AtFollow ==
    /\ pc = "loop"
    /\ current \notin visited
    /\ current \in DOMAIN neighbors
    /\ Len(neighbors[current]) = 1

\* C15: at an unvisited node with exactly one neighbour the step walks the
\* node, advances to that neighbour and stays in the loop; the loss history,
\* total, correct, the accumulated loss and the latent state keep their
\* values, and neither the model, nor the oracle, nor the optimizer is called.
C15_FollowFrame ==
    [][AtFollow =>
          /\ walk' = Append(walk, current)
          /\ current' = neighbors[current][1]
          /\ pc' = "loop"
          /\ outcome' = "running"
          /\ loss_list' = loss_list
          /\ total' = total
          /\ correct' = correct
          /\ total_loss' = total_loss
          /\ last_latent' = last_latent
          /\ predict_actions' = predict_actions
          /\ modelLog' = modelLog
          /\ events' = events
          /\ optLog' = optLog]_vars

\* C15 witness: a sequential training call resolved a branch and then
\* followed the only edge of the next node.
C15_Witness ==
    /\ pc = "loop"
    /\ model = "SequentialModel" /\ mode = "train"
    /\ total = 1
    /\ Len(walk) = 2
    /\ Degree(walk[1]) > 1
    /\ Degree(walk[2]) = 1
    /\ current = neighbors[walk[2]][1]
    /\ Len(modelLog) = 1
    /\ Len(optLog) = 3

\* the call got past the root selection of lines 112-113
WalkStarted == pc # "begin" /\ ~(outcome = "IndexError" /\ walk = <<>>)

\* C16: with the GCN model embed and classify are each called exactly once,
\* before the first walk step (embed on the all-zero latent state, classify on
\* the one embed returned), no model call is made during the walk and a score
\* read from the table keeps its value; with the sequential model every branch
\* step (one whose oracle call returns None included) makes exactly one model
\* call, no other step makes any, and every call consumes the latent state
\* the previous call returned (all zeros for the first).
C16_ModelCadence ==
    /\ [](model = "GCNModel" /\ WalkStarted =>
            modelLog = <<[call |-> "embed", latent |-> 0],
                         [call |-> "classify", latent |-> 1]>>)
    /\ [](model = "GCNModel" /\ walk = <<>> /\ pc = "begin" => modelLog = <<>>)
    /\ [][model = "GCNModel" =>
            \A n \in DOMAIN predict_actions :
                /\ n \in DOMAIN predict_actions'
                /\ predict_actions'[n] = predict_actions[n]]_vars
    /\ [][model = "SequentialModel" =>
            IF AtBranch
            THEN modelLog' = Append(modelLog, [call |-> "step",
                                               latent |-> last_latent])
            ELSE modelLog' = modelLog]_vars
    /\ [](model = "SequentialModel" =>
            /\ Len(modelLog) = CountEvents(events, "predict")
            /\ last_latent = Len(modelLog)
            /\ \A i \in DOMAIN modelLog :
                  modelLog[i] = [call |-> "step", latent |-> i - 1])

\* C16 witness: the sequential model was called at two branches, the second
\* time on the latent state of the first call, and the oracle returned None at
\* the second branch.
C16_Witness ==
    /\ model = "SequentialModel"
    /\ pc = "post"
    /\ best_neighbor = NoNode
    /\ total = 1
    /\ Len(walk) >= 2
    /\ Len(modelLog) = 2
    /\ modelLog[1].latent = 0
    /\ modelLog[2].latent = 1

\* the walk entries i and j hold the same node or a node and its complement
Clash(i, j) == walk[i] = walk[j] \/ walk[i] = Complement(walk[j])

\* C17: every iteration of the loop first appends the current node to the
\* walk and then ends the loop if that node is already visited, which is the
\* case exactly when it or its complement was walked earlier; so the walk only
\* ever grows at its end, its entries other than the last are pairwise
\* distinct and pairwise non-complementary, and only the last entry may repeat
\* an earlier node or be the complement of one, in which case the loop is over.
C17_CycleClosure ==
    /\ [][pc = "loop" => walk' = Append(walk, current)]_vars
    /\ [][pc # "loop" => walk' = walk]_vars
    /\ [][pc = "loop" /\ current \in visited =>
            pc' = "post" /\ outcome' = "running"]_vars
    /\ [](pc = "loop" =>
            visited = {walk[i] : i \in DOMAIN walk}
                        \cup {Complement(walk[i]) : i \in DOMAIN walk})
    /\ [](\A i, j \in 1 .. (Len(walk) - 1) : i # j => ~Clash(i, j))
    /\ []((\E i \in 1 .. (Len(walk) - 1) : Clash(i, Len(walk)))
             => pc # "loop" /\ pc # "begin")

\* C17 witness: the walk came back to its first node and stopped there.
C17_Witness ==
    /\ pc = "post"
    /\ Len(walk) >= 3
    /\ Last(walk) = walk[1]
    /\ walk[2] # Complement(walk[1])

\* C18: the walk loop always ends (by a revisit, a dead end, an oracle None
\* or a failing lookup), after at most num_nodes + 1 iterations, because every
\* iteration that does not end the loop walks a node that was not visited and
\* adds it to the visited set.
C18_LoopTerminates ==
    /\ <>(pc \in {"post", "done"})
    /\ [][pc = "loop" =>
            /\ Len(walk') = Len(walk) + 1
            /\ Len(walk') <= NumNodes + 1]_vars
    /\ [][pc = "loop" /\ pc' = "loop" =>
            /\ current \notin visited
            /\ current \in visited'
            /\ visited \subseteq visited'
            /\ Cardinality(visited') > Cardinality(visited)]_vars
    /\ [][pc # "loop" => pc' # "loop" \/ pc = "begin"]_vars

\* C18 witness: the loop ran three iterations, two of which went on, and the
\* call returned.
C18_Witness ==
    /\ outcome = "returned"
    /\ Len(walk) = 3
    /\ Cardinality(visited) = 4
    /\ total >= 1

\* the walk entries that are branch nodes
BranchEntries == {i \in DOMAIN walk : Degree(walk[i]) > 1}

\* C19: at every iteration boundary and at loop exit the loss history has
\* total entries, 0 <= correct <= total, and total is at most the number of
\* walk entries that are branch nodes; so an accuracy that is returned is a
\* fraction correct / total with total > 0 between 0 and 1.
C19_Counters ==
    /\ Len(loss_list) = total
    /\ 0 <= correct
    /\ correct <= total
    /\ total <= Cardinality(BranchEntries)
    /\ outcome = "returned" =>
          /\ result.accuracy = <<correct, total>>
          /\ result.accuracy[2] > 0
          /\ 0 <= result.accuracy[1]
          /\ result.accuracy[1] <= result.accuracy[2]

\* C19 witness: two branch nodes were walked, the first was resolved against
\* the model's choice, at the second the oracle returned None, and the call
\* returned accuracy 0.
C19_Witness ==
    /\ outcome = "returned"
    /\ Cardinality(BranchEntries) = 2
    /\ total = 1
    /\ correct = 0
    /\ result.accuracy = <<0, 1>>

\* node n is a branch node all of whose forward paths run into a node
\* without neighbours in fewer than 4 hops
ShortLookahead(n) ==
    /\ Degree(n) > 1
    /\ ~get_paths(n, neighbors, LookAhead).raised
    /\ WalksFrom(n, neighbors, LookAhead) = {}

\* C20: at a branch node from which no forward path of exactly 4 hops exists
\* the path enumeration yields no candidate and the oracle returns None
\* whatever strands the aligner reports, a neighbour with the strand of the
\* current node included; the step ends the loop at that node and records no
\* loss (the step is the one in which the current node has an anchor).
C20_ShortLookaheadEndsWalk ==
    /\ [](AtBranch /\ ShortLookahead(current) =>
            /\ Candidates(current, neighbors) = <<>>
            /\ \A strandOf \in [Nodes -> Strands] :
                  get_edlib_best(current, neighbors, strandOf, <<>>) = NoNode)
    /\ [][AtBranch /\ ShortLookahead(current) /\ outcome' # "IndexError" =>
            /\ best_neighbor' = NoNode
            /\ pc' = "post"
            /\ walk' = Append(walk, current)
            /\ current' = current
            /\ loss_list' = loss_list
            /\ total_loss' = total_loss
            /\ total' = total
            /\ correct' = correct]_vars

\* C20 witness: the walk ended with the oracle's None at a branch node that
\* has a forward path of two hops but none of four.
C20_Witness ==
    /\ pc = "post"
    /\ walk # <<>>
    /\ ShortLookahead(Last(walk))
    /\ WalksFrom(Last(walk), neighbors, 2) # {}
    /\ best_neighbor = NoNode
    /\ loss_list = <<>>
    /\ events = NoneEvents(Last(walk))

====
